---- MODULE Spec2Model ----
(***************************************************************************)
(* Model of bin/ri-solr-diff.py: two paginated, sorted generators (the     *)
(* Fedora resource index and the Solr index), the merge loop of __main__   *)
(* that compares their records by (timestamp, PID), and the gsearch        *)
(* update trigger.                                                         *)
(*                                                                         *)
(* A record is the tuple <<pid, time>> the generators yield.  PIDs are     *)
(* strings compared lexicographically in the program; here they are drawn  *)
(* from 1..MaxPid with the same total order.  Timestamps are drawn from    *)
(* 1..MaxTime.                                                             *)
(***************************************************************************)
EXTENDS Integers, Sequences, FiniteSets, TLC

MaxPid == 2
MaxTime == 2
MaxLimit == 2

\* start = None (--all): no window boundary.
None == 0

Pids == 1..MaxPid
Times == 1..MaxTime

VARIABLES
  riBackend,    \* the objects the resource index holds: a set of <<pid, time>>
  solrBackend,  \* the documents the Solr index holds: a set of <<pid, time>>
  limit,        \* args.query_limit
  start,        \* the window boundary computed in __main__ (None for --all)
  ri,           \* the generator iter(ri_generator(...))
  solr,         \* the generator iter(solr_generator(...))
  ri_result,    \* __main__'s ri_result
  solr_result,  \* __main__'s solr_result
  updated,      \* gsearch.updated
  flagged,      \* the records whose PID was passed to gsearch.update_pid, in call order
  lastStatus,   \* the outcome of the latest update_pid POST: "none", "ok" or "fail"
  fetchFailed,  \* some page fetch so far returned a non-success status
  pc,           \* position in __main__
  error,        \* the uncaught exception that ended the process, or "none"
  exitCode,     \* the process exit status, -1 while running
  rerun         \* this is the script's second run on the same backends

vars == <<riBackend, solrBackend, limit, start, ri, solr, ri_result, solr_result,
          updated, flagged, lastStatus, fetchFailed, pc, error, exitCode, rerun>>

\* ---------------------------------------------------------------- backends

\* Each object has one last-modified date on each side (the PID is the key).
Populations ==
  {S \in SUBSET (Pids \X Times) : \A a, b \in S : a[1] = b[1] => a = b}

\* ORDER BY ?timestamp ?obj  /  sort: '<field> asc, PID asc'
RecLess(a, b) == a[2] < b[2] \/ (a[2] = b[2] /\ a[1] < b[1])

RECURSIVE SortRecs(_)
SortRecs(S) ==
  IF S = {} THEN <<>>
  ELSE LET m == CHOOSE x \in S : \A y \in S : y = x \/ RecLess(x, y)
       IN <<m>> \o SortRecs(S \ {m})

\* 'limit' / 'rows': at most n rows of the sorted result.
Take(s, n) == SubSeq(s, 1, IF Len(s) < n THEN Len(s) ELSE n)

\* A timestamp filter of a query: none, inclusive (>=) or exclusive (>).
NoFilter == [op |-> "none", t |-> None]
Ge(t) == [op |-> "ge", t |-> t]
Gt(t) == [op |-> "gt", t |-> t]

Matches(f, rec) ==
  CASE f.op = "none" -> TRUE
    [] f.op = "ge" -> rec[2] >= f.t
    [] f.op = "gt" -> rec[2] > f.t

\* The resource index answers the SPARQL query: the matching tuples, sorted, cut
\* to 'limit'.
RiQuery(f) == Take(SortRecs({r \in riBackend : Matches(f, r)}), limit)

\* Solr answers the select: the count of matching documents and the first 'rows'
\* of them, sorted.
SolrQuery(f) ==
  LET hits == {r \in solrBackend : Matches(f, r)}
  IN [numFound |-> Cardinality(hits), docs |-> Take(SortRecs(hits), limit)]

\* -------------------------------------------------------------- generators

\* next() on an exhausted generator raises StopIteration; no record is the empty
\* tuple.
Stop == <<>>

\* A generator before its first next(): the request is not yet sent.
NewGen(s) == [st |-> "new", start |-> s, page |-> <<>>, i |-> 0]

\* A generator that has returned: every later next() raises StopIteration.
Finished(g) == [st |-> "done", start |-> g.start, page |-> <<>>, i |-> 0]

\* ri_generator: the filter of the first request.
RiFirstFilter(s) == IF s = None THEN NoFilter ELSE Ge(s)

\* RiNextFilter with the first request's inclusive comparison kept.
RiNextFilterInclusive(s) == Ge(s)

\* ri_generator: the filter of every later request, from the last timestamp.
RiNextFilter(s) == Gt(s)

\* solr_generator: the fq of the first request; the range {s TO *} excludes s.
SolrFirstFilter(s) == IF s = None THEN NoFilter ELSE Gt(s)

\* SolrNextFilter leaving the fq of the first request of --all in place.
SolrNextFilterUnset(s) == NoFilter

\* SolrNextFilter with an inclusive range, [s TO *].
SolrNextFilterInclusive(s) == Ge(s)

\* solr_generator: the fq of every later request.
SolrNextFilter(s) == Gt(s)

\* ri_generator: what the generator does with the response r of a request sent
\* with filter f.  A non-success status leaves the while loop, an empty result
\* list breaks out of it: either way the generator returns.
RiResponse(g, f, ok) ==
  LET results == RiQuery(f) IN
  IF ~ok THEN [res |-> Stop, gen |-> Finished(g), failed |-> TRUE]
  ELSE IF Len(results) = 0 THEN [res |-> Stop, gen |-> Finished(g), failed |-> FALSE]
  ELSE [res |-> results[1],
        gen |-> [st |-> "running", start |-> g.start, page |-> results, i |-> 1],
        failed |-> FALSE]

\* ri.next(): run the generator to its next yield.  ok is the status of the page
\* fetch, if this step sends one.
RiNext(g, ok) ==
  CASE g.st = "done" -> [res |-> Stop, gen |-> g, failed |-> FALSE]
    [] g.st = "new" -> RiResponse(g, RiFirstFilter(g.start), ok)
    [] g.st = "running" ->
         IF g.i < Len(g.page)
         THEN [res |-> g.page[g.i + 1], gen |-> [g EXCEPT !.i = g.i + 1],
               failed |-> FALSE]
         ELSE LET last == g.page[Len(g.page)][2]
              IN RiResponse([g EXCEPT !.start = last], RiNextFilter(last), ok)

\* solr_generator: as RiResponse, but the page is empty when numFound is 0.
SolrResponse(g, f, ok) ==
  LET response == SolrQuery(f) IN
  IF ~ok THEN [res |-> Stop, gen |-> Finished(g), failed |-> TRUE]
  ELSE IF response.numFound = 0
  THEN [res |-> Stop, gen |-> Finished(g), failed |-> FALSE]
  ELSE [res |-> response.docs[1],
        gen |-> [st |-> "running", start |-> g.start, page |-> response.docs, i |-> 1],
        failed |-> FALSE]

\* solr.next()
SolrNext(g, ok) ==
  CASE g.st = "done" -> [res |-> Stop, gen |-> g, failed |-> FALSE]
    [] g.st = "new" -> SolrResponse(g, SolrFirstFilter(g.start), ok)
    [] g.st = "running" ->
         IF g.i < Len(g.page)
         THEN [res |-> g.page[g.i + 1], gen |-> [g EXCEPT !.i = g.i + 1],
               failed |-> FALSE]
         ELSE LET last == g.page[Len(g.page)][2]
              IN SolrResponse([g EXCEPT !.start = last], SolrNextFilter(last), ok)

\* Every record a generator still yields when it is iterated to its end and all
\* of its fetches succeed.
RECURSIVE RiRest(_)
RiRest(g) ==
  LET a == RiNext(g, TRUE)
  IN IF a.res = Stop THEN <<>> ELSE <<a.res>> \o RiRest(a.gen)

RECURSIVE SolrRest(_)
SolrRest(g) ==
  LET a == SolrNext(g, TRUE)
  IN IF a.res = Stop THEN <<>> ELSE <<a.res>> \o SolrRest(a.gen)

\* The whole stream of each source: what a fresh generator yields.
RiStream == RiRest(NewGen(start))
SolrStream == SolrRest(NewGen(start))

\* ------------------------------------------------------------------ gsearch

\* SetUpdated moved under the status check: set only when the POST succeeded.
SetUpdatedOnSuccess(u, ok) == IF ~u THEN ok ELSE u

\* gsearch.update_pid: 'if not self.updated: self.updated = True'.
SetUpdated(u, ok) == IF ~u THEN TRUE ELSE u

\* gsearch.update_pid(pid) for the PID of record rec; ok is the status of the
\* POST.  A failure is only logged.
update_pid(rec, ok) ==
  /\ updated' = SetUpdated(updated, ok)
  /\ flagged' = Append(flagged, rec)
  /\ lastStatus' = IF ok THEN "ok" ELSE "fail"

\* ------------------------------------------------------------------- __main__

args == <<riBackend, solrBackend, limit, start, rerun>>

Init ==
  /\ riBackend \in Populations
  /\ solrBackend \in Populations
  /\ limit \in 1..MaxLimit
  /\ start \in {None} \cup Times
  /\ rerun = FALSE
  /\ ri = NewGen(start)
  /\ solr = NewGen(start)
  /\ ri_result = Stop
  /\ solr_result = Stop
  /\ updated = FALSE
  /\ flagged = <<>>
  /\ lastStatus = "none"
  /\ fetchFailed = FALSE
  /\ pc = "try"
  /\ error = "none"
  /\ exitCode = -1

\* ri_result = ri.next(); solr_result = solr.next().  A StopIteration of either
\* leaves the try block for the leftover loops.
FirstPull ==
  /\ pc = "try"
  /\ \E ok1, ok2 \in BOOLEAN :
       LET a == RiNext(ri, ok1)
           b == SolrNext(solr, ok2)
       IN IF a.res = Stop
          THEN /\ ri' = a.gen
               /\ fetchFailed' = (fetchFailed \/ a.failed)
               /\ pc' = "for_ri"
               /\ UNCHANGED <<solr, ri_result, solr_result>>
          ELSE /\ ri' = a.gen
               /\ ri_result' = a.res
               /\ solr' = b.gen
               /\ fetchFailed' = (fetchFailed \/ a.failed \/ b.failed)
               /\ IF b.res = Stop
                  THEN pc' = "for_ri" /\ UNCHANGED solr_result
                  ELSE pc' = "while" /\ solr_result' = b.res
  /\ UNCHANGED <<args, updated, flagged, lastStatus, error, exitCode>>

\* ri_result = ri.next() inside the while loop.
AdvanceRi(ok) ==
  LET a == RiNext(ri, ok)
  IN /\ ri' = a.gen
     /\ fetchFailed' = (fetchFailed \/ a.failed)
     /\ IF a.res = Stop
        THEN pc' = "for_ri" /\ UNCHANGED ri_result
        ELSE pc' = "while" /\ ri_result' = a.res

\* solr_result = solr.next() inside the while loop.
AdvanceSolr(ok) ==
  LET b == SolrNext(solr, ok)
  IN /\ solr' = b.gen
     /\ fetchFailed' = (fetchFailed \/ b.failed)
     /\ IF b.res = Stop
        THEN pc' = "for_ri" /\ UNCHANGED solr_result
        ELSE pc' = "while" /\ solr_result' = b.res

\* 'while ri_result and solr_result': both are non-empty tuples.
InLoop == pc = "while" /\ ri_result # Stop /\ solr_result # Stop

\* RiOlder pulling from both generators after the call.
RiOlderAdvancesBoth ==
  /\ InLoop
  /\ ri_result[2] < solr_result[2]
  /\ \E okU, ok1, ok2 \in BOOLEAN :
       LET a == RiNext(ri, ok1)
           b == SolrNext(solr, ok2)
       IN /\ update_pid(ri_result, okU)
          /\ ri' = a.gen
          /\ solr' = b.gen
          /\ fetchFailed' = (fetchFailed \/ a.failed \/ b.failed)
          /\ IF a.res = Stop \/ b.res = Stop
             THEN pc' = "for_ri" /\ UNCHANGED <<ri_result, solr_result>>
             ELSE pc' = "while" /\ ri_result' = a.res /\ solr_result' = b.res
  /\ UNCHANGED <<args, error, exitCode>>

\* RiOlder passing the other side's record to update_pid.
RiOlderFlagsSolr ==
  /\ InLoop
  /\ ri_result[2] < solr_result[2]
  /\ \E okU, okF \in BOOLEAN : update_pid(solr_result, okU) /\ AdvanceRi(okF)
  /\ UNCHANGED <<args, solr, solr_result, error, exitCode>>

\* if ri_time < solr_time
RiOlder ==
  /\ InLoop
  /\ ri_result[2] < solr_result[2]
  /\ \E okU, okF \in BOOLEAN : update_pid(ri_result, okU) /\ AdvanceRi(okF)
  /\ UNCHANGED <<args, solr, solr_result, error, exitCode>>

\* SolrOlder pulling from the wrong generator after the call.
SolrOlderAdvancesRi ==
  /\ InLoop
  /\ solr_result[2] < ri_result[2]
  /\ \E okU, okF \in BOOLEAN : update_pid(solr_result, okU) /\ AdvanceRi(okF)
  /\ UNCHANGED <<args, solr, solr_result, error, exitCode>>

\* elif solr_time < ri_time
SolrOlder ==
  /\ InLoop
  /\ solr_result[2] < ri_result[2]
  /\ \E okU, okF \in BOOLEAN : update_pid(solr_result, okU) /\ AdvanceSolr(okF)
  /\ UNCHANGED <<args, ri, ri_result, error, exitCode>>

\* else: if ri_pid < solr_pid
RiPidSmaller ==
  /\ InLoop
  /\ ri_result[2] = solr_result[2]
  /\ ri_result[1] < solr_result[1]
  /\ \E okU, okF \in BOOLEAN : update_pid(ri_result, okU) /\ AdvanceRi(okF)
  /\ UNCHANGED <<args, solr, solr_result, error, exitCode>>

\* SolrPidSmaller passing the other side's record to update_pid.
SolrPidSmallerFlagsRi ==
  /\ InLoop
  /\ ri_result[2] = solr_result[2]
  /\ solr_result[1] < ri_result[1]
  /\ \E okU, okF \in BOOLEAN : update_pid(ri_result, okU) /\ AdvanceSolr(okF)
  /\ UNCHANGED <<args, ri, ri_result, error, exitCode>>

\* else: elif solr_pid < ri_pid
SolrPidSmaller ==
  /\ InLoop
  /\ ri_result[2] = solr_result[2]
  /\ solr_result[1] < ri_result[1]
  /\ \E okU, okF \in BOOLEAN : update_pid(solr_result, okU) /\ AdvanceSolr(okF)
  /\ UNCHANGED <<args, ri, ri_result, error, exitCode>>

\* SameDoc without its second statement: only the resource index advances.
SameDocRiOnly ==
  /\ InLoop
  /\ ri_result[2] = solr_result[2]
  /\ ri_result[1] = solr_result[1]
  /\ \E ok1 \in BOOLEAN : AdvanceRi(ok1)
  /\ UNCHANGED <<args, solr, solr_result, updated, flagged, lastStatus, error,
                 exitCode>>

\* else: else: same PID, same time; ri_result = ri.next(), then
\* solr_result = solr.next().
SameDoc ==
  /\ InLoop
  /\ ri_result[2] = solr_result[2]
  /\ ri_result[1] = solr_result[1]
  /\ \E ok1, ok2 \in BOOLEAN :
       LET a == RiNext(ri, ok1)
           b == SolrNext(solr, ok2)
       IN IF a.res = Stop
          THEN /\ ri' = a.gen
               /\ fetchFailed' = (fetchFailed \/ a.failed)
               /\ pc' = "for_ri"
               /\ UNCHANGED <<solr, ri_result, solr_result>>
          ELSE /\ ri' = a.gen
               /\ ri_result' = a.res
               /\ solr' = b.gen
               /\ fetchFailed' = (fetchFailed \/ a.failed \/ b.failed)
               /\ IF b.res = Stop
                  THEN pc' = "for_ri" /\ UNCHANGED solr_result
                  ELSE pc' = "while" /\ solr_result' = b.res
  /\ UNCHANGED <<args, updated, flagged, lastStatus, error, exitCode>>

\* What the body of a leftover loop does with a record: 'logger' is not a name
\* of the module, so logger.debug(...) raises NameError before update_pid is
\* reached; the exception is not caught and the interpreter exits with status 1.
LeftoverBody(rec) ==
  /\ pc' = "done"
  /\ error' = "NameError"
  /\ exitCode' = 1
  /\ UNCHANGED <<updated, flagged, lastStatus>>

\* for ri_pid, ri_time in ri: one iteration, or the end of the loop.
LeftoverRi ==
  /\ pc = "for_ri"
  /\ \E ok \in BOOLEAN :
       LET a == RiNext(ri, ok)
       IN /\ ri' = a.gen
          /\ fetchFailed' = (fetchFailed \/ a.failed)
          /\ IF a.res = Stop
             THEN /\ pc' = "for_solr"
                  /\ UNCHANGED <<updated, flagged, lastStatus, error, exitCode>>
             ELSE LeftoverBody(a.res)
  /\ UNCHANGED <<args, solr, ri_result, solr_result>>

\* for solr_pid, solr_time in solr: one iteration, or the end of the loop.
LeftoverSolr ==
  /\ pc = "for_solr"
  /\ \E ok \in BOOLEAN :
       LET b == SolrNext(solr, ok)
       IN /\ solr' = b.gen
          /\ fetchFailed' = (fetchFailed \/ b.failed)
          /\ IF b.res = Stop
             THEN /\ pc' = "exit"
                  /\ UNCHANGED <<updated, flagged, lastStatus, error, exitCode>>
             ELSE LeftoverBody(b.res)
  /\ UNCHANGED <<args, ri, ri_result, solr_result>>

\* Exit with the two statuses exchanged.
ExitSwapped ==
  /\ pc = "exit"
  /\ exitCode' = IF updated THEN 0 ELSE 1
  /\ pc' = "done"
  /\ UNCHANGED <<args, ri, solr, ri_result, solr_result, updated, flagged,
                 lastStatus, fetchFailed, error>>

\* if gsearch.updated: exit(1) else: exit(0)
Exit ==
  /\ pc = "exit"
  /\ exitCode' = IF updated THEN 1 ELSE 0
  /\ pc' = "done"
  /\ UNCHANGED <<args, ri, solr, ri_result, solr_result, updated, flagged,
                 lastStatus, fetchFailed, error>>

\* The script is started a second time with the same arguments, after a pass
\* that fetched every page and exited 0 ("everything was up-to-date"), so that
\* nothing was triggered and both backends are as they were: fresh generators,
\* a fresh gsearch object; nothing is kept from the run before.
Rerun ==
  /\ pc = "done"
  /\ exitCode = 0
  /\ ~fetchFailed
  /\ ~rerun
  /\ rerun' = TRUE
  /\ ri' = NewGen(start)
  /\ solr' = NewGen(start)
  /\ ri_result' = Stop
  /\ solr_result' = Stop
  /\ updated' = FALSE
  /\ flagged' = <<>>
  /\ lastStatus' = "none"
  /\ fetchFailed' = FALSE
  /\ pc' = "try"
  /\ error' = "none"
  /\ exitCode' = -1
  /\ UNCHANGED <<riBackend, solrBackend, limit, start>>

Next ==
  \/ FirstPull
  \/ RiOlder
  \/ SolrOlder
  \/ RiPidSmaller
  \/ SolrPidSmaller
  \/ SameDoc
  \/ LeftoverRi
  \/ LeftoverSolr
  \/ Exit
  \/ Rerun

Spec == Init /\ [][Next]_vars

\* ---------------------------------------------------- a source iterated alone

\* 'for record in ri': one next() of the resource-index generator, every fetch
\* succeeding.
IterRi ==
  /\ ri.st # "done"
  /\ ri' = RiNext(ri, TRUE).gen
  /\ UNCHANGED <<args, solr, ri_result, solr_result, updated, flagged, lastStatus,
                 fetchFailed, pc, error, exitCode>>

\* 'for record in solr', after the first loop has ended.
IterSolr ==
  /\ ri.st = "done"
  /\ solr.st # "done"
  /\ solr' = SolrNext(solr, TRUE).gen
  /\ UNCHANGED <<args, ri, ri_result, solr_result, updated, flagged, lastStatus,
                 fetchFailed, pc, error, exitCode>>

DrainNext == IterRi \/ IterSolr

\* Both sources are built over backends holding the same records.
DrainInit == Init /\ solrBackend = riBackend

\* The for loops keep calling next() until StopIteration.
DrainSpec == DrainInit /\ [][DrainNext]_vars /\ WF_vars(DrainNext)

\* ------------------------------------------------------------------- claims

SetOf(s) == {s[i] : i \in 1..Len(s)}

\* How often x occurs in the sequence s.
Count(x, s) == Cardinality({i \in 1..Len(s) : s[i] = x})

\* The PIDs passed to update_pid, in call order.
Calls == [i \in 1..Len(flagged) |-> flagged[i][1]]

\* The run is over: by exit(0), exit(1) or an uncaught exception.
Ended == pc = "done"

\* The run is over and every page fetch of it succeeded.
CleanEnd == Ended /\ ~fetchFailed

\* The records in exactly one of the two streams.
SymDiff ==
  (SetOf(RiStream) \ SetOf(SolrStream)) \cup (SetOf(SolrStream) \ SetOf(RiStream))

\* The entries of stream a that come after every entry of stream b.
Trailing(a, b) ==
  LET After(r) == \A j \in 1..Len(b) : RecLess(b[j], r)
  IN SelectSeq(a, After)

\* The entries of the sequence s that are in the set S, in order.
Restrict(s, S) ==
  LET In(r) == r \in S
  IN SelectSeq(s, In)

\* C1: at the end of a run whose fetches all succeeded, the records whose PID
\* was passed to update_pid are exactly the records in one stream and not in
\* the other.
C1_FlagsSymmetricDifference == CleanEnd => SetOf(flagged) = SymDiff

\* C2: at the end of a run whose fetches all succeeded, the entries of one
\* stream that lie beyond the last entry of the other stream have each been
\* flagged exactly once, in stream order.
C2_ExhaustionDrain ==
  CleanEnd =>
    /\ Restrict(flagged, SetOf(Trailing(RiStream, SolrStream)))
         = Trailing(RiStream, SolrStream)
    /\ Restrict(flagged, SetOf(Trailing(SolrStream, RiStream)))
         = Trailing(SolrStream, RiStream)

\* C3: a run whose fetches all succeeded exits with status 0 exactly when the
\* two streams are the same sequence of records.
C3_ExitStatusReflectsDrift ==
  CleanEnd => (exitCode = 0 <=> RiStream = SolrStream)

\* C4: a run in which a page fetch returned a non-success status ends in a
\* fatal error with a non-zero exit status.
C4_FetchFailureAborts ==
  (Ended /\ fetchFailed) => (error # "none" /\ exitCode # 0)

\* The records of backend B at or after the window boundary.
Window(B) == {r \in B : start = None \/ r[2] >= start}

\* C5: a source iterated to its end has yielded every record of its backend at
\* or after the window boundary.
C5_PaginationComplete ==
  /\ ri.st = "done" => SetOf(RiStream) = Window(riBackend)
  /\ solr.st = "done" => SetOf(SolrStream) = Window(solrBackend)

\* C6: two sources built with the same window boundary over backends holding
\* the same records yield the same sequence.
C6_MatchingPopulation ==
  (riBackend = solrBackend /\ ri.st = "done" /\ solr.st = "done")
    => RiStream = SolrStream

\* PID p is in both streams, with differing timestamps.
Differing(p) ==
  \E a \in SetOf(RiStream), b \in SetOf(SolrStream) :
    a[1] = p /\ b[1] = p /\ a[2] # b[2]

\* The records of PID p in the two streams.
RecordsOf(p) == {r \in SetOf(RiStream) \cup SetOf(SolrStream) : r[1] = p}

\* C7 as claimed: a PID in both streams with differing timestamps has been
\* passed to update_pid exactly once when the run ends.
C7_FlaggedExactlyOnce ==
  CleanEnd => \A p \in Pids : Differing(p) => Count(p, Calls) = 1

\* C7 as amended: of a PID in both streams with differing timestamps, the
\* record with the earlier timestamp has been flagged exactly once and the
\* record with the later timestamp at most once when the run ends: the PID is
\* passed to update_pid once or twice.
C7_FlaggedOnceOrTwice ==
  CleanEnd =>
    \A p \in Pids : Differing(p) =>
      /\ \A r \in RecordsOf(p) :
           IF \A q \in RecordsOf(p) : r[2] <= q[2]
           THEN Count(r, flagged) = 1
           ELSE Count(r, flagged) <= 1
      /\ Count(p, Calls) \in {1, 2}

\* C7's case: a run has ended that compared a PID held with differing
\* timestamps, and flagged it once for each side.
C7_Witness ==
  CleanEnd /\ \E p \in Pids : Differing(p) /\ Count(p, Calls) = 2

\* C8: while the two streams are the same sequence and no fetch has failed,
\* update_pid is never called, gsearch.updated stays False, no exception ends
\* the run, and the run exits with status 0; in every run on these backends.
C8_NoFalsePositives ==
  (RiStream = SolrStream /\ ~fetchFailed) =>
    /\ flagged = <<>>
    /\ ~updated
    /\ error = "none"
    /\ Ended => exitCode = 0

\* C8's case: the second run over the same two-page stream has exited 0.
C8_Witness ==
  /\ RiStream = SolrStream
  /\ Len(RiStream) >= 2
  /\ limit = 1
  /\ rerun
  /\ CleanEnd
  /\ exitCode = 0

\* A step of the merge loop as it is when the update_pid call in it succeeds,
\* the logged outcome aside.
StepOfSuccessfulCall ==
  \E okF \in BOOLEAN :
    \/ /\ updated' = SetUpdated(updated, TRUE)
       /\ flagged' = Append(flagged, ri_result)
       /\ AdvanceRi(okF)
       /\ UNCHANGED <<args, solr, solr_result, error, exitCode>>
    \/ /\ updated' = SetUpdated(updated, TRUE)
       /\ flagged' = Append(flagged, solr_result)
       /\ AdvanceSolr(okF)
       /\ UNCHANGED <<args, ri, ri_result, error, exitCode>>

\* C9: a step in which update_pid gets a non-success response changes the
\* state as the same step with a successful response does: the call counts
\* (gsearch.updated is True), no exception ends the run, and the loop goes
\* on to the next pull.
C9_TriggerFailureNonFatal ==
  [][(Len(flagged') = Len(flagged) + 1 /\ lastStatus' = "fail")
       => /\ StepOfSuccessfulCall
          /\ updated'
          /\ error' = "none"
          /\ pc' \in {"while", "for_ri"}]_vars

\* C9's case: a run whose latest update_pid call failed went on to its normal
\* end and exited 1.
C9_Witness ==
  Ended /\ lastStatus = "fail" /\ error = "none" /\ exitCode = 1

\* The next() of generator g sends a page request.
FetchDue(g) == g.st = "new" \/ (g.st = "running" /\ g.i = Len(g.page))

\* The page that request returns is empty.
RiPageEmpty(g) ==
  IF g.st = "new" THEN RiQuery(RiFirstFilter(g.start)) = <<>>
  ELSE RiQuery(RiNextFilter(g.page[Len(g.page)][2])) = <<>>

SolrPageEmpty(g) ==
  IF g.st = "new" THEN SolrQuery(SolrFirstFilter(g.start)).numFound = 0
  ELSE SolrQuery(SolrNextFilter(g.page[Len(g.page)][2])).numFound = 0

\* C10: iterated with every fetch succeeding, each source ends on a step
\* exactly when that step fetches an empty page, and both sources eventually
\* end.
C10_SourceTerminates ==
  /\ [][/\ ri' # ri => (ri'.st = "done" <=> (FetchDue(ri) /\ RiPageEmpty(ri)))
        /\ solr' # solr =>
             (solr'.st = "done" <=> (FetchDue(solr) /\ SolrPageEmpty(solr)))]_vars
  /\ <>(ri.st = "done" /\ solr.st = "done")

\* C10's case: both sources have ended after serving at least two pages each.
C10_Witness ==
  /\ ri.st = "done"
  /\ solr.st = "done"
  /\ limit = 1
  /\ start = None
  /\ Len(RiStream) >= 2
  /\ Len(SolrStream) >= 2

\* C11: gsearch.updated is True exactly when update_pid has been called in this
\* run, whatever the calls' outcomes, and once True it stays True; a run that
\* ends through the exit-status check exits 1 if update_pid was called and 0
\* if it never was.
C11_ExitStatusFromTrigger ==
  /\ [](updated <=> flagged # <<>>)
  /\ []((Ended /\ error = "none") => exitCode = IF flagged # <<>> THEN 1 ELSE 0)
  /\ [][updated => updated']_vars

\* C11's case: a run in which update_pid was called twice, the second call
\* succeeding, has ended through the exit-status check with status 1.
C11_Witness ==
  /\ Ended
  /\ error = "none"
  /\ Len(flagged) = 2
  /\ lastStatus = "ok"
  /\ updated
  /\ exitCode = 1

\* C12: the records whose PID has been passed to update_pid are, in call
\* order, strictly ascending by (timestamp, PID).
C12_FlagOrder ==
  \A i, j \in 1..Len(flagged) : i < j => RecLess(flagged[i], flagged[j])

\* C12's case: a run has flagged records of both sides, at two different
\* timestamps.
C12_Witness ==
  /\ Len(flagged) >= 2
  /\ flagged[1] \in riBackend \ solrBackend
  /\ flagged[2] \in solrBackend \ riBackend
  /\ flagged[1][2] < flagged[2][2]
  /\ ~fetchFailed

\* C13: a run whose fetches all succeeded ends through the exit-status check,
\* with both generators exhausted.
C13_ReachesTerminalState ==
  CleanEnd => (error = "none" /\ ri.st = "done" /\ solr.st = "done")

\* The step flags the catalog's current record and pulls from the catalog
\* generator alone; the index side is as it was.
OnlyRiStep ==
  /\ flagged' = Append(flagged, ri_result)
  /\ ri' # ri
  /\ \E ok \in BOOLEAN : ri' = RiNext(ri, ok).gen
  /\ solr' = solr
  /\ solr_result' = solr_result

\* The step flags the index's current record and pulls from the index
\* generator alone; the catalog side is as it was.
OnlySolrStep ==
  /\ flagged' = Append(flagged, solr_result)
  /\ solr' # solr
  /\ \E ok \in BOOLEAN : solr' = SolrNext(solr, ok).gen
  /\ ri' = ri
  /\ ri_result' = ri_result

\* C14: a step of the merge loop taken with the catalog's current timestamp
\* strictly below the index's flags the catalog's record only, advances the
\* catalog generator only and leaves the index's current record unchanged;
\* and the same with the sides exchanged.
C14_CompareStepDifferingTimes ==
  [][/\ (InLoop /\ ri_result[2] < solr_result[2]) => OnlyRiStep
     /\ (InLoop /\ solr_result[2] < ri_result[2]) => OnlySolrStep]_vars

\* C14's case: the merge loop has flagged a catalog record whose timestamp is
\* below that of the index's current record, which it still holds.
C14_Witness ==
  /\ pc = "while"
  /\ Len(flagged) = 1
  /\ flagged[1] \in riBackend
  /\ flagged[1][2] < solr_result[2]
  /\ solr_result = SolrStream[1]
  /\ ri_result # RiStream[1]
  /\ ~fetchFailed

\* Both current records have the same timestamp.
Tie == InLoop /\ ri_result[2] = solr_result[2]

\* The tie-break by PID: the side with the smaller PID is flagged and is the
\* only side advanced.
TieBrokenByPid ==
  /\ (Tie /\ ri_result[1] < solr_result[1]) => OnlyRiStep
  /\ (Tie /\ solr_result[1] < ri_result[1]) => OnlySolrStep

\* C15 as claimed: a step of the merge loop on equal timestamps is decided by
\* the PIDs alone; on equal PIDs (and with no fetch failing) nothing is flagged
\* and both generators advance; every step of the loop advances at least one
\* generator.
C15_TieBreakBothAdvance ==
  [][/\ TieBrokenByPid
     /\ (Tie /\ ri_result[1] = solr_result[1] /\ ~fetchFailed')
          => (flagged' = flagged /\ ri' # ri /\ solr' # solr)
     /\ InLoop => (ri' # ri \/ solr' # solr)]_vars

\* C15 as amended: on equal PIDs nothing is flagged and the catalog generator
\* advances; the index generator advances too unless the catalog's next()
\* raised StopIteration, which ends the loop with the index generator where
\* it was.
C15_TieBreak ==
  [][/\ TieBrokenByPid
     /\ (Tie /\ ri_result[1] = solr_result[1])
          => /\ flagged' = flagged
             /\ ri' # ri
             /\ \E ok \in BOOLEAN : ri' = RiNext(ri, ok).gen
             /\ IF ri'.st = "done"
                THEN solr' = solr /\ pc' = "for_ri"
                ELSE solr' # solr /\ \E ok \in BOOLEAN : solr' = SolrNext(solr, ok).gen
     /\ InLoop => (ri' # ri \/ solr' # solr)]_vars

\* C15's case: the merge loop has flagged a catalog record that tied with the
\* index's current record on the timestamp and had the smaller PID, and has
\* then met the same document on both sides, where the catalog's next() ended
\* the loop.
C15_Witness ==
  /\ pc = "for_ri"
  /\ Len(flagged) = 1
  /\ flagged[1] \in riBackend
  /\ flagged[1][2] = solr_result[2]
  /\ flagged[1][1] < solr_result[1]
  /\ ri_result = solr_result
  /\ ri.st = "done"
  /\ solr.st = "running"
  /\ ~fetchFailed

\* The timestamp of the last record of the page generator g holds.
LastOfPage(g) == g.page[Len(g.page)][2]

\* The step sends a later request of generator g.  The cursor is the timestamp
\* of the last record of the page before; it lies above the cursor of the
\* request that fetched that page.
LaterRequest(g, g2) ==
  /\ g2.start = LastOfPage(g)
  /\ g.start # start => g2.start > g.start
  /\ g2.start >= g.start
  /\ g2.start \in Times

\* C16: the first request of a source is filtered by the window boundary
\* alone (none for --all); every later request is filtered by the timestamp of
\* the last record of the page before it, and returns the backend's records
\* strictly above that cursor; the cursor increases from one later request to
\* the next.
C16_CursorPolicy ==
  [][/\ (ri' # ri /\ ri.st = "new") =>
          /\ ri'.start = start
          /\ ri'.page = (IF start = None THEN Take(SortRecs(riBackend), limit)
                         ELSE RiQuery(Ge(start)))
     /\ (ri' # ri /\ ri.st = "running" /\ FetchDue(ri)) =>
          /\ LaterRequest(ri, ri')
          /\ ri'.page = RiQuery(Gt(LastOfPage(ri)))
     /\ (solr' # solr /\ solr.st = "new") =>
          /\ solr'.start = start
          /\ solr'.page = (IF start = None THEN Take(SortRecs(solrBackend), limit)
                           ELSE SolrQuery(Gt(start)).docs)
     /\ (solr' # solr /\ solr.st = "running" /\ FetchDue(solr)) =>
          /\ LaterRequest(solr, solr')
          /\ solr'.page = SolrQuery(Gt(LastOfPage(solr))).docs]_vars

\* Both sources have sent a second later request: with one record per page the
\* catalog's cursor has moved from the first record's timestamp to the
\* second's, and the index has been paged the same way.
C16_Witness ==
  /\ limit = 1 /\ start = None
  /\ RiStream = <<<<1, 1>>, <<2, 2>>>>
  /\ ri.st = "done" /\ ri.start = 2
  /\ solr.st = "done" /\ solr.start = 2

\* The step makes generator g yield a record after one it yielded before; g2 is
\* the generator after the step.
YieldsAgain(g, g2) == g.st = "running" /\ g2.st = "running" /\ g2 # g

\* C17: each record a source yields comes strictly after the record it yielded
\* before in (timestamp, identifier) order, within a page and across a page
\* boundary, for every page size; so the records yielded over all pages are
\* in non-decreasing order and none is yielded twice.
C17_YieldsAscendNoDuplicate ==
  [][/\ YieldsAgain(ri, ri') => RecLess(ri.page[ri.i], ri'.page[ri'.i])
     /\ YieldsAgain(solr, solr') => RecLess(solr.page[solr.i], solr'.page[solr'.i])]_vars

\* The catalog was read to its end over two later requests, and the index has
\* yielded its second record from the page after the first.
C17_Witness ==
  /\ limit = 1
  /\ ri.st = "done" /\ ri.start = 2
  /\ solr.st = "running" /\ solr.start = 1 /\ solr.page[solr.i] = <<2, 2>>
  /\ SolrStream[1] = <<1, 1>>

\* The records the run has pulled from each source so far, when every fetch
\* succeeded: the stream without what the generator would still yield.
PulledRi == SubSeq(RiStream, 1, Len(RiStream) - Len(RiRest(ri)))
PulledSolr == SubSeq(SolrStream, 1, Len(SolrStream) - Len(SolrRest(solr)))

\* C18: at the end of a run that reached exit() and whose fetches all
\* succeeded, every record pulled
\* from either source was flagged through update_pid or was pulled from the
\* other source as well, where the compare step found the two equal; this
\* includes the record held as one side's current record when the pull on the
\* other side raised StopIteration.
C18_NoPulledRecordLost ==
  (CleanEnd /\ error = "none") =>
    /\ \A r \in SetOf(PulledRi) : r \in SetOf(flagged) \/ r \in SetOf(PulledSolr)
    /\ \A r \in SetOf(PulledSolr) : r \in SetOf(flagged) \/ r \in SetOf(PulledRi)

====
